---- MODULE Spec2Model ----
(***************************************************************************)
(* A model of Scraper/scraper.py: the TwinCAT error code scraper.          *)
(*                                                                         *)
(* Text is a sequence of characters.  A character is a TLA+ string: an     *)
(* ASCII character stands for itself, and a character outside ASCII is     *)
(* written by its code point ("U+00DF").                                   *)
(***************************************************************************)
EXTENDS Integers, Sequences, FiniteSets, TLC

VARIABLES
    \* ---- format_identifier applied to a text, and to its own result
    identifier,      \* the argument of format_identifier
    formatted,       \* format_identifier(identifier)
    reformatted,     \* format_identifier(formatted)
    fpc              \* "input" | "formatted" | "reformatted"

fmtVars == <<identifier, formatted, reformatted, fpc>>

VARIABLES
    \* ---- process_error_codes
    all_raw_rows,    \* sequence of (page_title, row, symbol_column_index)
    error_codes,     \* sequence of ErrorCode records
    rpc              \* "input" | "resolved"

resVars == <<all_raw_rows, error_codes, rpc>>

VARIABLES
    \* ---- extract_table_data on one parsed page
    soup,            \* the parsed page: its title element and its tables
    extracted,       \* what extract_table_data returned, or that it raised
    epc              \* "input" | "extracted" | "collected"

extVars == <<soup, extracted, epc>>

VARIABLES
    \* ---- run()
    pc,              \* the statement of run() that is executed next
    main_soup,       \* the parsed entry page: the link lists get_page_links finds
    links,           \* the URLs of the for loop
    link_idx,        \* how many of them the loop has taken
    fetched,         \* the URLs given to fetch_html so far, in order
    processed,       \* one entry for every iteration of the loop begun
    invoked,         \* the methods run() has called after the loop, in order
    files,           \* the state of each output file
    contents,        \* the entries of the enum file, the cases of the description file
    log,             \* the warnings and errors logged so far
    propagated       \* an exception has left run()

runVars == <<pc, main_soup, links, link_idx, fetched, processed, invoked, files, contents, log,
             propagated>>
vars == <<fmtVars, resVars, extVars, runVars>>

-----------------------------------------------------------------------------
(* Characters and Python's str methods on them *)

LowerLetters ==
    {"a","b","c","d","e","f","g","h","i","j","k","l","m",
     "n","o","p","q","r","s","t","u","v","w","x","y","z"}
UpperLetters ==
    {"A","B","C","D","E","F","G","H","I","J","K","L","M",
     "N","O","P","Q","R","S","T","U","V","W","X","Y","Z"}
Digits == {"0","1","2","3","4","5","6","7","8","9"}

\* U+00DF sharp s: a lowercase letter whose uppercase is the two letters SS.
\* U+00AA feminine ordinal indicator and U+4E2D, a CJK ideograph: letters
\* (str.isalnum() is True) that have no case, so str.upper() leaves them as
\* they are and str.isupper() is False.
CaselessAlnum == {"U+00AA", "U+4E2D"}

\* F applied to the value of e (a local binding whose value is computed once)
With(e, F(_)) == CHOOSE r \in {F(x) : x \in {e}} : TRUE

\* str.upper() of one character
CharUpper(c) ==
    CASE c = "a" -> <<"A">> [] c = "b" -> <<"B">> [] c = "c" -> <<"C">>
      [] c = "d" -> <<"D">> [] c = "e" -> <<"E">> [] c = "f" -> <<"F">>
      [] c = "g" -> <<"G">> [] c = "h" -> <<"H">> [] c = "i" -> <<"I">>
      [] c = "j" -> <<"J">> [] c = "k" -> <<"K">> [] c = "l" -> <<"L">>
      [] c = "m" -> <<"M">> [] c = "n" -> <<"N">> [] c = "o" -> <<"O">>
      [] c = "p" -> <<"P">> [] c = "q" -> <<"Q">> [] c = "r" -> <<"R">>
      [] c = "s" -> <<"S">> [] c = "t" -> <<"T">> [] c = "u" -> <<"U">>
      [] c = "v" -> <<"V">> [] c = "w" -> <<"W">> [] c = "x" -> <<"X">>
      [] c = "y" -> <<"Y">> [] c = "z" -> <<"Z">>
      [] c = "U+00DF" -> <<"S", "S">>
      [] OTHER -> <<c>>

\* U+00B2 superscript two: str.isdigit() and str.isalnum() are True, but int()
\* does not accept it.
NonDecimalDigits == {"U+00B2"}

\* str.isalnum() of one character
isalnum(c) ==
    c \in LowerLetters \cup UpperLetters \cup Digits \cup {"U+00DF"}
         \cup CaselessAlnum \cup NonDecimalDigits

\* str.isdigit()
isdigit(s) == s # <<>> /\ \A i \in 1..Len(s) : s[i] \in Digits \cup NonDecimalDigits

\* int(s) raises ValueError
int_raises(s) == s = <<>> \/ \E i \in 1..Len(s) : s[i] \notin Digits

\* str.upper()
RECURSIVE upper(_)
upper(s) == IF s = <<>> THEN <<>> ELSE CharUpper(Head(s)) \o upper(Tail(s))

\* str.replace(old, new) for a single character old
RECURSIVE replace_char(_, _, _)
replace_char(s, old, new) ==
    IF s = <<>> THEN <<>>
    ELSE (IF Head(s) = old THEN new ELSE <<Head(s)>>) \o replace_char(Tail(s), old, new)

\* str.split(sep) for a single character sep: the fields between the separators
RECURSIVE split(_, _)
split(s, sep) ==
    IF \A i \in 1..Len(s) : s[i] # sep THEN <<s>>
    ELSE LET k == CHOOSE i \in 1..Len(s) :
                      s[i] = sep /\ \A j \in 1..(i - 1) : s[j] # sep
         IN  <<SubSeq(s, 1, k - 1)>> \o split(SubSeq(s, k + 1, Len(s)), sep)

\* sep.join(parts)
RECURSIVE join(_, _)
join(parts, sep) ==
    IF parts = <<>> THEN <<>>
    ELSE IF Len(parts) = 1 THEN parts[1]
    ELSE parts[1] \o sep \o join(Tail(parts), sep)

NonEmpty(p) == p # <<>>
KeptByFormat(c) == isalnum(c) \/ c = "_"

\* format_identifier with the clean-up of underscores done before the removal of
\* the special characters
format_identifier_reordered(text) ==
    LET step1 == replace_char(upper(text), " ", <<"_">>)
        step2 == join(SelectSeq(split(step1, "_"), NonEmpty), <<"_">>)
    IN  SelectSeq(step2, KeptByFormat)

\* ErrorCodeScraper.format_identifier
format_identifier(text) ==
    With(upper(text), LAMBDA upper_text :
    With(replace_char(upper_text, " ", <<"_">>), LAMBDA step1 :
    With(SelectSeq(step1, KeptByFormat), LAMBDA step2 :
    With(SelectSeq(split(step2, "_"), NonEmpty), LAMBDA fields :
         join(fields, <<"_">>)))))

\* str.lower() of one character (no character of the model expands)
CharLower(c) ==
    CASE c = "A" -> "a" [] c = "B" -> "b" [] c = "C" -> "c" [] c = "D" -> "d"
      [] c = "E" -> "e" [] c = "F" -> "f" [] c = "G" -> "g" [] c = "H" -> "h"
      [] c = "I" -> "i" [] c = "J" -> "j" [] c = "K" -> "k" [] c = "L" -> "l"
      [] c = "M" -> "m" [] c = "N" -> "n" [] c = "O" -> "o" [] c = "P" -> "p"
      [] c = "Q" -> "q" [] c = "R" -> "r" [] c = "S" -> "s" [] c = "T" -> "t"
      [] c = "U" -> "u" [] c = "V" -> "v" [] c = "W" -> "w" [] c = "X" -> "x"
      [] c = "Y" -> "y" [] c = "Z" -> "z"
      [] OTHER -> c

\* str.lower()
lower(s) == [i \in 1..Len(s) |-> CharLower(s[i])]

\* s.startswith(pat)
startswith(s, pat) == Len(s) >= Len(pat) /\ SubSeq(s, 1, Len(pat)) = pat

\* str.replace(old, "") : every occurrence of old, found left to right, removed
RECURSIVE remove_all(_, _)
remove_all(s, old) ==
    IF old = <<>> \/ s = <<>> THEN s
    ELSE IF startswith(s, old) THEN remove_all(SubSeq(s, Len(old) + 1, Len(s)), old)
    ELSE <<Head(s)>> \o remove_all(Tail(s), old)

Whitespace == {" ", "\t", "\n"}

\* str.strip()
RECURSIVE strip(_)
strip(s) ==
    IF s = <<>> THEN <<>>
    ELSE IF Head(s) \in Whitespace THEN strip(Tail(s))
    ELSE IF s[Len(s)] \in Whitespace THEN strip(SubSeq(s, 1, Len(s) - 1))
    ELSE s

DigitChar(d) ==
    CASE d = 0 -> "0" [] d = 1 -> "1" [] d = 2 -> "2" [] d = 3 -> "3" [] d = 4 -> "4"
      [] d = 5 -> "5" [] d = 6 -> "6" [] d = 7 -> "7" [] d = 8 -> "8" [] d = 9 -> "9"

\* str(n) of a natural number, as the f-string formats the counter
RECURSIVE str_of_int(_)
str_of_int(n) ==
    IF n < 10 THEN <<DigitChar(n)>> ELSE str_of_int(n \div 10) \o <<DigitChar(n % 10)>>

-----------------------------------------------------------------------------
(* Bounded sets of texts *)

MaxTextLen == 3

RECURSIVE TextsOfLen(_, _)
TextsOfLen(alphabet, n) ==
    IF n = 0 THEN {<<>>}
    ELSE {<<c>> \o t : c \in alphabet, t \in TextsOfLen(alphabet, n - 1)}

TextsUpTo(alphabet, n) == UNION {TextsOfLen(alphabet, k) : k \in 0..n}

FormatAlphabet == {"a", "B", "1", " ", "_", ":", "U+00DF", "U+00AA"}

-----------------------------------------------------------------------------
(* process_error_codes *)

\* The base identifier of one (page_title, row, symbol_column_index), or the
\* IndexError that the row lookup raises.  Python indexes from 0: row[k] is
\* row[k + 1] here.
base_id(t) ==
    LET row == t.row
        sci == t.symbol_column_index
    IN  IF sci # -1 /\ Len(row) > sci /\ strip(row[sci + 1]) # <<>>
        THEN [raised |-> FALSE,
              id |-> t.page_title \o <<"_">> \o format_identifier(row[sci + 1])]
        ELSE LET idx == IF sci = -1 THEN 4 ELSE Len(row) - 1
             IN  IF idx >= 0 /\ idx < Len(row)
                 THEN [raised |-> FALSE,
                       id |-> t.page_title \o <<"_">> \o format_identifier(row[idx + 1])]
                 ELSE [raised |-> TRUE, id |-> <<>>]

\* all_identifiers: the base identifiers of the rows of the first loop
all_identifiers(rows) ==
    With(SelectSeq(rows, LAMBDA t : ~base_id(t).raised), LAMBDA ok :
         [i \in 1..Len(ok) |-> base_id(ok[i]).id])

\* identifier_counts: how often each base identifier occurs
identifier_counts(rows) ==
    With(all_identifiers(rows), LAMBDA ids :
         [b \in {ids[i] : i \in 1..Len(ids)} |->
             Cardinality({i \in 1..Len(ids) : ids[i] = b})])

\* the final identifier that leaves the first of several equal base
\* identifiers without a suffix
final_id_first_unsuffixed(base, total, counter) ==
    IF total > 1 /\ counter > 1 THEN base \o <<"_">> \o str_of_int(counter) ELSE base

\* the final identifier of a row: its base identifier, with the running counter
\* of that base as a suffix when the base occurs more than once
final_id(base, total, counter) ==
    IF total > 1 THEN base \o <<"_">> \o str_of_int(counter) ELSE base

\* The second loop from row i on; identifier_counters maps a base identifier to
\* the counter it has reached.  A row whose lookups raise IndexError is dropped
\* after its counter was advanced.
RECURSIVE second_pass(_, _, _, _)
second_pass(rows, counts, identifier_counters, i) ==
    IF i > Len(rows) THEN <<>>
    ELSE With(base_id(rows[i]), LAMBDA b :
         IF b.raised THEN second_pass(rows, counts, identifier_counters, i + 1)
         ELSE With(IF counts[b.id] > 1
                   THEN [identifier_counters EXCEPT ![b.id] = @ + 1]
                   ELSE identifier_counters, LAMBDA counters2 :
              IF Len(rows[i].row) < 4
              THEN second_pass(rows, counts, counters2, i + 1)
              ELSE <<[code |-> rows[i].row[2],
                      description |-> rows[i].row[4],
                      identifier |-> final_id(b.id, counts[b.id],
                                              identifier_counters[b.id] + 1)]>>
                   \o second_pass(rows, counts, counters2, i + 1)))

\* ErrorCodeScraper.process_error_codes
process_error_codes(rows) ==
    With(identifier_counts(rows), LAMBDA counts :
         second_pass(rows, counts, [b \in DOMAIN counts |-> 0], 1))

-----------------------------------------------------------------------------
(* The parsed page and extract_table_data *)

(* A parsed page is [title, tables].  title is [present, text]: the page's    *)
(* title element, if any, and its text.  A table is [headers, trs]: headers   *)
(* the texts of its th elements, trs its tr elements in order, each the       *)
(* sequence of its td cells (a header row has none).  A cell is the sequence  *)
(* of the nodes of its markup; a node is [strong, text]: a text node, or a    *)
(* strong element holding one text node.                                      *)

Plain(text) == <<[strong |-> FALSE, text |-> text]>>
Bold(text) == <<[strong |-> TRUE, text |-> text]>>
EmptyCell == <<>>

\* stripped_strings: the stripped text of every node, the empty ones left out
stripped_strings(cell) ==
    SelectSeq([i \in 1..Len(cell) |-> strip(cell[i].text)], NonEmpty)

\* get_text(strip=True): the stripped strings joined without a separator
get_text(cell) == join(stripped_strings(cell), <<>>)

\* str(decode_contents()) is the empty string exactly for a cell without nodes
decode_contents_empty(cell) == cell = <<>>

\* find('strong') and get_text(strip=True) of it, "" when there is none
strong_text_of(cell) ==
    IF \E i \in 1..Len(cell) : cell[i].strong
    THEN LET k == CHOOSE i \in 1..Len(cell) :
                      cell[i].strong /\ \A j \in 1..(i - 1) : ~cell[j].strong
         IN  strip(cell[k].text)
    ELSE <<>>

UNKNOWN_IDENTIFIER == <<"U", "N", "K", "N", "O", "W", "N", "_", "I", "D", "E", "N", "T", "I", "F", "I", "E", "R">>

\* std_row[3]: the description of a description cell
description_of(cell) ==
    LET strong_text == strong_text_of(cell)
        all_text == join(stripped_strings(cell), <<" ">>)
    IN  IF strong_text # <<>> /\ strip(strong_text) = strip(all_text)
        THEN strong_text
        ELSE LET kept == SelectSeq(stripped_strings(cell), LAMBDA t : t # strong_text)
             IN  strip(remove_all(join(kept, <<" ">>), strong_text))

ErrorCodeLabels ==
    {<<"e", "r", "r", "o", "r", "(", "d", "e", "c", ")">>,
     <<"e", "r", "r", "o", "r", " ", "c", "o", "d", "e">>,
     <<"e", "r", "r", "o", "r">>,
     <<"c", "o", "d", "e", " ", "(", "d", "e", "c", ")">>}
DescriptionLabels == {<<"d", "e", "s", "c", "r", "i", "p", "t", "i", "o", "n">>, <<"t", "e", "x", "t">>}
SymbolLabel == <<"s", "y", "m", "b", "o", "l">>

\* next((i for i, h in enumerate(headers) if h.lower() in labels), default)
header_index(headers, labels, default) ==
    IF \E i \in 1..Len(headers) : lower(headers[i]) \in labels
    THEN (CHOOSE i \in 1..Len(headers) :
              /\ lower(headers[i]) \in labels
              /\ \A j \in 1..(i - 1) : lower(headers[j]) \notin labels) - 1
    ELSE default

\* The row built from the td cells of one tr: [keep, row].  keep is FALSE for
\* a tr that adds no row.  An IndexError of the assignment to
\* std_row[symbol_column_index] is caught and the row is added as it is.
std_row_of(tds, error_code_idx, description_idx, symbol_column_index) ==
    LET error_code == IF error_code_idx < Len(tds)
                      THEN get_text(tds[error_code_idx + 1]) ELSE <<>>
        has_description == description_idx < Len(tds)
                           /\ ~decode_contents_empty(tds[description_idx + 1])
    IN  IF Len(tds) < 2 \/ error_code = <<>> \/ ~has_description
        THEN [keep |-> FALSE, row |-> <<>>]
        ELSE LET cell == tds[description_idx + 1]
                 strong_text == strong_text_of(cell)
                 slot4 == IF symbol_column_index = -1
                          THEN (IF strong_text # <<>> THEN strong_text
                                ELSE UNKNOWN_IDENTIFIER)
                          ELSE <<>>
                 row0 == << <<>>, error_code, <<>>, description_of(cell), slot4 >>
                 symbol_text == IF symbol_column_index # -1
                                   /\ symbol_column_index < Len(tds)
                                THEN get_text(tds[symbol_column_index + 1])
                                ELSE <<>>
             IN  [keep |-> TRUE,
                  row |-> IF symbol_text # <<>> /\ symbol_column_index < Len(row0)
                          THEN [row0 EXCEPT ![symbol_column_index + 1] = symbol_text]
                          ELSE row0]

\* the rows of table.find_all('tr')[1:]
RECURSIVE table_rows(_, _, _, _)
table_rows(trs, error_code_idx, description_idx, symbol_column_index) ==
    IF trs = <<>> THEN <<>>
    ELSE LET r == std_row_of(Head(trs), error_code_idx, description_idx,
                             symbol_column_index)
         IN  (IF r.keep THEN <<r.row>> ELSE <<>>)
             \o table_rows(Tail(trs), error_code_idx, description_idx,
                           symbol_column_index)

\* the index of the first header that is "symbol" in any case, or the index
\* given when there is none
symbol_index(headers, otherwise) == header_index(headers, {SymbolLabel}, otherwise)

\* The loop over the tables from table table_idx (counted from 0) on, with
\* the all_headers, all_rows and symbol_column_index reached so far.
RECURSIVE extract_tables(_, _, _, _, _)
extract_tables(tables, table_idx, all_headers, all_rows, symbol_column_index) ==
    IF table_idx >= Len(tables)
    THEN [raised |-> FALSE, headers |-> all_headers, rows |-> all_rows,
          symbol_column_index |-> symbol_column_index]
    ELSE LET table == tables[table_idx + 1]
             headers == table.headers
         IN  IF headers = <<>>
             THEN extract_tables(tables, table_idx + 1, all_headers, all_rows,
                                 symbol_column_index)
             ELSE LET first == all_headers = <<>> \/ table_idx = 0
                      sci == IF first \/ headers # all_headers
                             THEN symbol_index(headers, symbol_column_index)
                             ELSE symbol_column_index
                      rows == table_rows(
                                  IF table.trs = <<>> THEN <<>> ELSE Tail(table.trs),
                                  header_index(headers, ErrorCodeLabels, 0),
                                  header_index(headers, DescriptionLabels, 1),
                                  sci)
                  IN  extract_tables(tables, table_idx + 1,
                                     IF first THEN headers ELSE all_headers,
                                     all_rows \o rows, sci)

NotExtracted ==
    [raised |-> FALSE, headers |-> <<>>, rows |-> <<>>, symbol_column_index |-> -1]

\* ErrorCodeScraper.extract_table_data; raised stands for the ValueError
extract_table_data(page) ==
    IF page.tables = <<>>
    THEN [NotExtracted EXCEPT !.raised = TRUE]
    ELSE extract_tables(page.tables, 0, <<>>, <<>>, -1)

\* the title of a page without a title element
TitleNC == <<"N", "C">>

\* ErrorCodeScraper.get_page_title
get_page_title(page) ==
    IF page.title.present THEN format_identifier(strip(page.title.text)) ELSE TitleNC

-----------------------------------------------------------------------------
(* format_identifier as a state machine: apply it, then apply it to the result *)

ResolveIdle ==
    /\ all_raw_rows = <<>>
    /\ error_codes = <<>>
    /\ rpc = "input"

FormatIdle ==
    /\ identifier = <<>>
    /\ formatted = <<>>
    /\ reformatted = <<>>
    /\ fpc = "input"

Artifacts == {"csv", "enum", "description", "converter"}

RunIdle ==
    /\ pc = "start"
    /\ main_soup = <<>>
    /\ links = <<>>
    /\ link_idx = 0
    /\ fetched = <<>>
    /\ processed = <<>>
    /\ invoked = <<>>
    /\ files = [a \in Artifacts |-> "absent"]
    /\ contents = [a \in {"enum", "description"} |-> <<>>]
    /\ log = <<>>
    /\ propagated = FALSE

ExtractIdle ==
    /\ soup = [title |-> [present |-> FALSE, text |-> <<>>], tables |-> <<>>]
    /\ extracted = NotExtracted
    /\ epc = "input"

FormatInit ==
    /\ ResolveIdle
    /\ ExtractIdle
    /\ RunIdle
    /\ identifier \in TextsUpTo(FormatAlphabet, MaxTextLen)
    /\ formatted = <<>>
    /\ reformatted = <<>>
    /\ fpc = "input"

Format ==
    /\ fpc = "input"
    /\ formatted' = format_identifier(identifier)
    /\ fpc' = "formatted"
    /\ UNCHANGED <<identifier, reformatted, resVars, extVars, runVars>>

Reformat ==
    /\ fpc = "formatted"
    /\ reformatted' = format_identifier(formatted)
    /\ fpc' = "reformatted"
    /\ UNCHANGED <<identifier, formatted, resVars, extVars, runVars>>

FormatNext == Format \/ Reformat

FormatSpec == FormatInit /\ [][FormatNext]_vars

\* C7: for every input text the result of format_identifier consists only of
\* uppercase letters, digits and underscores, does not start or end with an
\* underscore, and has no two adjacent underscores.
C7_FormatShape ==
    fpc # "input" =>
        /\ \A i \in 1..Len(formatted) :
               formatted[i] \in UpperLetters \cup Digits \cup {"_"}
        /\ formatted # <<>> =>
               formatted[1] # "_" /\ formatted[Len(formatted)] # "_"
        /\ \A i \in 1..(Len(formatted) - 1) :
               ~(formatted[i] = "_" /\ formatted[i + 1] = "_")

\* C8: format_identifier is idempotent: applied to its own result it returns
\* that result.
C8_FormatIdempotent ==
    fpc = "reformatted" => reformatted = formatted

\* format_identifier changed the text (case, a space turned into an underscore
\* that was then trimmed, a dropped character) and was applied again to what
\* it returned
C8_Witness ==
    /\ fpc = "reformatted"
    /\ identifier = <<"a", " ", ":">>
    /\ formatted = <<"A">>

-----------------------------------------------------------------------------
(* process_error_codes as a state machine *)

MaxRows == 3

\* a row as extract_table_data leaves it when the page has no Symbol column:
\* the code in slot 1, the description in slot 3, the bold phrase in slot 4
SeedRow(seed) ==
    [page_title |-> TitleNC,
     row |-> << <<>>, <<"1">>, <<>>, <<"d">>, seed >>,
     symbol_column_index |-> -1]

\* a row as extract_table_data leaves it when the Symbol column is column 0
SymbolRow(symbol) ==
    [page_title |-> TitleNC,
     row |-> << symbol, <<"1">>, <<>>, <<"d">>, <<>> >>,
     symbol_column_index |-> 0]

ResolveTriples ==
    {SeedRow(seed) : seed \in {<<"F">>, <<"f">>, <<"F", " ", "1">>, <<"F", "_", "1">>, <<"G">>}}
    \cup {SymbolRow(symbol) : symbol \in {<<"F">>, <<>>}}

RECURSIVE SeqsOfLen(_, _)
SeqsOfLen(S, n) ==
    IF n = 0 THEN {<<>>}
    ELSE {<<x>> \o q : x \in S, q \in SeqsOfLen(S, n - 1)}

SeqsUpTo(S, n) == UNION {SeqsOfLen(S, k) : k \in 0..n}

ResolveInit ==
    /\ FormatIdle
    /\ ExtractIdle
    /\ RunIdle
    /\ all_raw_rows \in SeqsUpTo(ResolveTriples, MaxRows)
    /\ error_codes = <<>>
    /\ rpc = "input"

Resolve ==
    /\ rpc = "input"
    /\ error_codes' = process_error_codes(all_raw_rows)
    /\ rpc' = "resolved"
    /\ UNCHANGED <<all_raw_rows, fmtVars, extVars, runVars>>

ResolveNext == Resolve

ResolveSpec == ResolveInit /\ [][ResolveNext]_vars

\* C1: the identifiers of the records process_error_codes returns are pairwise
\* distinct, whatever the rows.
C1_IdentifiersDistinct ==
    rpc = "resolved" =>
        \A i, j \in 1..Len(error_codes) :
            i # j => error_codes[i].identifier # error_codes[j].identifier

\* the rows with the same base identifier as row i, and the rank of row i
\* among them in input order
SameBase(i) ==
    {j \in 1..Len(all_raw_rows) : base_id(all_raw_rows[j]).id = base_id(all_raw_rows[i]).id}
RankAmongSame(i) == Cardinality({j \in SameBase(i) : j <= i})

\* C2: a row whose base identifier occurs once keeps it unchanged; the k > 1
\* occurrences of a base identifier get BASE_1 .. BASE_k in input order.
C2_SuffixByOccurrence ==
    rpc = "resolved" =>
        /\ Len(error_codes) = Len(all_raw_rows)
        /\ \A i \in 1..Len(error_codes) :
               error_codes[i].identifier =
                   IF Cardinality(SameBase(i)) = 1
                   THEN base_id(all_raw_rows[i]).id
                   ELSE base_id(all_raw_rows[i]).id \o <<"_">>
                            \o str_of_int(RankAmongSame(i))

\* three rows resolved: a base identifier that occurs twice and one that
\* occurs once
C2_Witness ==
    /\ rpc = "resolved"
    /\ all_raw_rows = <<SeedRow(<<"F">>), SeedRow(<<"G">>), SeedRow(<<"f">>)>>
    /\ error_codes[1].identifier = <<"N", "C", "_", "F", "_", "1">>
    /\ error_codes[2].identifier = <<"N", "C", "_", "G">>
    /\ error_codes[3].identifier = <<"N", "C", "_", "F", "_", "2">>

-----------------------------------------------------------------------------
(* extract_table_data as a state machine: one page is extracted, its rows are  *)
(* collected with the page title as run() does, and resolved                   *)

MaxNodes == 2
MaxTables == 2

NodeTexts == {<<"F">>, <<"F", " ", "x">>, <<" ", "x">>, <<" ">>}
Nodes == {[strong |-> b, text |-> t] : b \in BOOLEAN, t \in NodeTexts}
DescriptionCells == SeqsUpTo(Nodes, MaxNodes)
CodeCells == {Plain(<<"1">>), EmptyCell}
SymbolCells == {Plain(<<"S">>), EmptyCell}
FillerCell == Plain(<<"r">>)

H_ErrorDec == <<"E", "r", "r", "o", "r", "(", "D", "e", "c", ")">>
H_Error == <<"E", "r", "r", "o", "r">>
H_Description == <<"D", "e", "s", "c", "r", "i", "p", "t", "i", "o", "n">>
H_Text == <<"T", "e", "x", "t">>
H_Symbol == <<"S", "y", "m", "b", "o", "l">>
H_Remarks == <<"R", "e", "m", "a", "r", "k", "s">>

HeaderRow == <<>>

\* one table with a header row and one data row, for each place of the Symbol
\* column: none, column 0, 1, 2 and 3
OneRowTables ==
    {[headers |-> <<H_ErrorDec, H_Description>>, trs |-> <<HeaderRow, <<c, d>>>>] :
        c \in CodeCells, d \in DescriptionCells}
    \cup
    {[headers |-> <<H_Symbol, H_Error, H_Text>>, trs |-> <<HeaderRow, <<y, c, d>>>>] :
        c \in CodeCells, d \in DescriptionCells, y \in SymbolCells}
    \cup
    {[headers |-> <<H_Error, H_Symbol, H_Description>>, trs |-> <<HeaderRow, <<c, y, d>>>>] :
        c \in CodeCells, d \in DescriptionCells, y \in SymbolCells}
    \cup
    {[headers |-> <<H_ErrorDec, H_Description, H_Symbol>>, trs |-> <<HeaderRow, <<c, d, y>>>>] :
        c \in CodeCells, d \in DescriptionCells, y \in SymbolCells}
    \cup
    {[headers |-> <<H_ErrorDec, H_Description, H_Remarks, H_Symbol>>,
      trs |-> <<HeaderRow, <<c, d, FillerCell, y>>>>] :
        c \in CodeCells, d \in DescriptionCells, y \in SymbolCells}

\* tables for the pages with several tables: without headers, without a
\* Symbol column (two rows), with a Symbol column
SmallTables ==
    {[headers |-> <<>>, trs |-> <<<<Plain(<<"1">>), Bold(<<"F">>)>>>>],
     [headers |-> <<H_ErrorDec, H_Description>>,
      trs |-> <<HeaderRow, <<Plain(<<"1">>), Bold(<<"F">>)>>,
                <<Plain(<<"2">>), Bold(<<"F">>) \o Plain(<<" ", "x">>)>>>>],
     [headers |-> <<H_ErrorDec, H_Description, H_Symbol>>,
      trs |-> <<HeaderRow, <<Plain(<<"3">>), Plain(<<"F">>), Plain(<<"S">>)>>>>]}

Titles == {[present |-> FALSE, text |-> <<>>], [present |-> TRUE, text |-> <<"N", "c">>]}

\* the row ["100", "<strong>Drive fault</strong>"] under the headers
\* ["Error(Dec)", "Description"] on a page titled NC
DriveFaultPage ==
    [title |-> [present |-> TRUE, text |-> TitleNC],
     tables |-> <<[headers |-> <<H_ErrorDec, H_Description>>,
                   trs |-> <<HeaderRow,
                             <<Plain(<<"1", "0", "0">>), Bold(<<"D", "r", "i", "v", "e", " ", "f", "a", "u", "l", "t">>)>>>>]>>]

\* a page whose title has no letter or digit, and a page whose bold phrase has
\* none
PunctuationTitlePage ==
    [title |-> [present |-> TRUE, text |-> <<"!">>],
     tables |-> <<[headers |-> <<H_ErrorDec, H_Description>>,
                   trs |-> <<HeaderRow, <<Plain(<<"1">>), Bold(<<"F">>)>>>>]>>]
PunctuationSeedPage ==
    [title |-> [present |-> FALSE, text |-> <<>>],
     tables |-> <<[headers |-> <<H_ErrorDec, H_Description>>,
                   trs |-> <<HeaderRow, <<Plain(<<"1">>), Bold(<<":">>) \o Plain(<<"x">>)>>>>]>>]

Pages ==
    {[title |-> t, tables |-> <<tb>>] : t \in Titles, tb \in OneRowTables}
    \cup {[title |-> [present |-> FALSE, text |-> <<>>], tables |-> tbs] :
             tbs \in SeqsUpTo(SmallTables, MaxTables)}
    \cup {DriveFaultPage, PunctuationTitlePage, PunctuationSeedPage}

\* the rows of a page as run() stores them: (page_title, row, symbol_column_index)
collect_rows(page_title, ex) ==
    [i \in 1..Len(ex.rows) |->
        [page_title |-> page_title, row |-> ex.rows[i],
         symbol_column_index |-> ex.symbol_column_index]]

ExtractInit ==
    /\ FormatIdle
    /\ ResolveIdle
    /\ RunIdle
    /\ soup \in Pages
    /\ extracted = NotExtracted
    /\ epc = "input"

Extract ==
    /\ epc = "input"
    /\ extracted' = extract_table_data(soup)
    /\ epc' = "extracted"
    /\ UNCHANGED <<soup, fmtVars, resVars, runVars>>

Collect ==
    /\ epc = "extracted"
    /\ ~extracted.raised
    /\ all_raw_rows' = all_raw_rows \o collect_rows(get_page_title(soup), extracted)
    /\ epc' = "collected"
    /\ UNCHANGED <<soup, extracted, fmtVars, error_codes, rpc, runVars>>

ResolveCollected ==
    /\ epc = "collected"
    /\ Resolve

ExtractNext == Extract \/ Collect \/ ResolveCollected

ExtractSpec == ExtractInit /\ [][ExtractNext]_vars

\* the page has one table with headers and one data row
OneRowPage ==
    /\ Len(soup.tables) = 1
    /\ soup.tables[1].headers # <<>>
    /\ Len(soup.tables[1].trs) = 2

TheHeaders == soup.tables[1].headers
TheCells == soup.tables[1].trs[2]
DescriptionCell == TheCells[header_index(TheHeaders, DescriptionLabels, 1) + 1]
BoldPhrase == strong_text_of(DescriptionCell)

\* a header of the table is "Symbol", in any case
SymbolDeclared == \E i \in 1..Len(TheHeaders) : lower(TheHeaders[i]) = SymbolLabel

\* the text of the row's cell in the Symbol column, "" without such a cell
SymbolCellText ==
    LET k == symbol_index(TheHeaders, -1)
    IN  IF k # -1 /\ k < Len(TheCells) THEN get_text(TheCells[k + 1]) ELSE <<>>

\* the seed the claim names: the Symbol cell when declared and non-empty,
\* otherwise the bold lead-in phrase, otherwise UNKNOWN_IDENTIFIER
ClaimedSeed ==
    IF SymbolDeclared /\ SymbolCellText # <<>> THEN SymbolCellText
    ELSE IF BoldPhrase # <<>> THEN BoldPhrase
    ELSE UNKNOWN_IDENTIFIER

\* C9: the base identifier of a row is page_title + "_" + format_identifier(seed),
\* the seed being the row's Symbol cell when the page declared a Symbol column
\* and the cell is not empty, and otherwise the bold lead-in phrase
\* (UNKNOWN_IDENTIFIER without one); the Drive fault row on the page titled NC
\* gets the identifier NC_DRIVE_FAULT.
C9_BaseIdentifierSeed ==
    /\ (epc = "collected" /\ OneRowPage /\ Len(all_raw_rows) = 1) =>
           base_id(all_raw_rows[1]).id =
               get_page_title(soup) \o <<"_">> \o format_identifier(ClaimedSeed)
    /\ (rpc = "resolved" /\ soup = DriveFaultPage) =>
           /\ Len(error_codes) = 1
           /\ error_codes[1].identifier = <<"N", "C", "_", "D", "R", "I", "V", "E", "_", "F", "A", "U", "L", "T">>

\* the whole text of the cell is the text of its first bold element
WholeBold(cell) == BoldPhrase # <<>> /\ stripped_strings(cell) = <<BoldPhrase>>

\* the cell is a bold lead-in followed by body text
LeadInThenBody(cell) ==
    /\ Len(cell) = 2
    /\ cell[1].strong /\ strip(cell[1].text) # <<>>
    /\ ~cell[2].strong /\ strip(cell[2].text) # <<>>

\* C10: a description cell whose whole text is in its first bold element gives
\* that bold phrase as the description; a bold lead-in followed by body text
\* gives the body text with the bold phrase removed and trimmed and, on a page
\* without a Symbol column, the bold phrase in slot 4.
C10_DescriptionOfBold ==
    (epc # "input" /\ OneRowPage /\ Len(extracted.rows) = 1) =>
        LET row == extracted.rows[1]
            cell == DescriptionCell
        IN  /\ WholeBold(cell) => row[4] = BoldPhrase
            /\ LeadInThenBody(cell) =>
                   row[4] = strip(remove_all(strip(cell[2].text), BoldPhrase))
            /\ (LeadInThenBody(cell) /\ ~SymbolDeclared) => row[5] = BoldPhrase

\* no table of the page has a header row
NoTableWithHeaders == \A i \in 1..Len(soup.tables) : soup.tables[i].headers = <<>>

\* C11: extract_table_data fails with the "no table" error whenever the page
\* has no table with a header row, both without any table and with tables that
\* all lack headers; it never returns normally for such a page.
C11_NoHeaderedTableRaises ==
    (epc # "input" /\ NoTableWithHeaders) => extracted.raised

\* neither the part before the first "_" nor a part after it is empty: the
\* identifier does not begin or end with "_" and has no "_" next to another
NoEmptyPart(id) ==
    /\ id # <<>>
    /\ id[1] # "_"
    /\ id[Len(id)] # "_"
    /\ \A k \in 1..(Len(id) - 1) : ~(id[k] = "_" /\ id[k + 1] = "_")

\* C14: an empty result of format_identifier is never accepted: no record has
\* an identifier whose page-title prefix or whose seed part is empty.
C14_NoEmptyIdentifierPart ==
    rpc = "resolved" =>
        \A i \in 1..Len(error_codes) : NoEmptyPart(error_codes[i].identifier)

\* the row's cell in the code column
CodeCell == TheCells[header_index(TheHeaders, ErrorCodeLabels, 0) + 1]

\* C15: a retained row has the non-empty text of its code cell in slot 1 and
\* a non-empty normalized description in slot 3, wherever the Symbol column is
\* and whatever the markup of the description cell; slot 4 is non-empty only
\* when no Symbol column was found.
C15_SlotsPopulated ==
    (epc # "input" /\ OneRowPage /\ Len(extracted.rows) = 1) =>
        LET row == extracted.rows[1]
        IN  /\ row[2] # <<>> /\ row[2] = get_text(CodeCell)
            /\ row[4] # <<>>
            /\ row[5] # <<>> => ~SymbolDeclared

-----------------------------------------------------------------------------
(* run() *)

(* A URL is a sequence of parts; an absolute URL starts with the part "http". *)
BASE_URL == <<"http", "://h/">>
MAIN_URL == <<"http", "://h/", "main">>
IFRAME_SRC == <<"http", "://h/", "frame">>

\* the href values of the list that follows one element matching
\* "Further Information"; the entry page is the sequence of these lists, one
\* for every matching element
absolute_url(href) ==
    IF href # <<>> /\ href[1] = "http" THEN href ELSE BASE_URL \o href

\* ErrorCodeScraper.get_page_links
RECURSIVE get_page_links(_)
get_page_links(sections) ==
    IF sections = <<>> THEN <<>>
    ELSE [i \in 1..Len(Head(sections)) |-> absolute_url(Head(sections)[i])]
         \o get_page_links(Tail(sections))

\* the links left as get_page_links returned them
links_as_found(urls) == urls

\* list(dict.fromkeys(links))
RECURSIVE unique_in_order(_)
unique_in_order(urls) ==
    IF urls = <<>> THEN <<>>
    ELSE LET rest == unique_in_order(SubSeq(urls, 1, Len(urls) - 1))
             last == urls[Len(urls)]
         IN  IF \E i \in 1..Len(rest) : rest[i] = last THEN rest ELSE Append(rest, last)

\* the exceptions the handler of run() catches: except Exception
run_catches_not_value_error(exc) == exc \in {"RequestException", "IOError"}

run_catches(exc) == exc \in {"RequestException", "IOError", "ValueError"}

\* a guard of the loop body that catches transport errors only
link_error_caught_transport_only(exc) == exc = "RequestException"

\* a guard of the loop body that catches table errors only
link_error_caught_value_only(exc) == exc = "ValueError"

\* the exceptions the handlers inside the loop body catch: ValueError from the
\* extraction, and any Exception of the iteration
link_error_caught(exc) == exc \in {"RequestException", "ValueError"}

LogEntry(level, msg, arg) == [level |-> level, msg |-> msg, arg |-> arg]

\* the sort key of an emitter raises ValueError for some record
sort_raises(records) ==
    \E i \in 1..Len(records) :
        LET first == split(records[i].code, "-")[1]
        IN  isdigit(first) /\ int_raises(first)

\* "start, end = case_code.split('-')" raises ValueError for some record
unpack_raises(records) ==
    \E i \in 1..Len(records) :
        /\ records[i].code # <<>> /\ records[i].identifier # <<>>
        /\ Len(split(records[i].code, "-")) > 2

\* int() of one decimal digit and of a string of decimal digits
DigitValue(c) == CHOOSE d \in 0..9 : DigitChar(d) = c

RECURSIVE int_of(_)
int_of(s) ==
    IF s = <<>> THEN 0
    ELSE int_of(SubSeq(s, 1, Len(s) - 1)) * 10 + DigitValue(s[Len(s)])

\* the sort key of the emitters, for a record whose key does not raise
sort_key(x) ==
    With(split(x.code, "-")[1], LAMBDA first :
         IF isdigit(first) THEN int_of(first) ELSE 0)

\* sorted(error_codes, key=...): by key, records with equal keys in their
\* order in error_codes
RECURSIVE sorted_codes(_)
sorted_codes(records) ==
    IF records = <<>> THEN <<>>
    ELSE With(sorted_codes(SubSeq(records, 1, Len(records) - 1)), LAMBDA rest :
         With(records[Len(records)], LAMBDA last :
         With(Cardinality({i \in 1..Len(rest) : sort_key(rest[i]) <= sort_key(last)}),
              LAMBDA k :
                  SubSeq(rest, 1, k) \o <<last>> \o SubSeq(rest, k + 1, Len(rest)))))

\* the entries write_enum_definition writes between NO_ERROR and ERR_UNKNOWN
enum_entries(records) ==
    With(SelectSeq(sorted_codes(records),
                   LAMBDA ec : ec.code # <<>> /\ ec.identifier # <<>>), LAMBDA kept :
         [i \in 1..Len(kept) |->
             [identifier |-> kept[i].identifier,
              code |-> IF \E n \in 1..Len(kept[i].code) : kept[i].code[n] = "-"
                       THEN split(kept[i].code, "-")[1]
                       ELSE kept[i].code]])

\* the cases write_description_function writes before the ERR_UNKNOWN case
description_cases(records) ==
    With(SelectSeq(sorted_codes(records),
                   LAMBDA ec : ec.code # <<>> /\ ec.identifier # <<>>
                               /\ ec.description # <<>>), LAMBDA kept :
         [i \in 1..Len(kept) |->
             [identifier |-> kept[i].identifier,
              description |-> strip(replace_char(replace_char(kept[i].description,
                                                              "'", <<"\"">>),
                                                 "\n", <<" ">>))]])

\* what is left of run() after exception exc was raised outside the loop body
RunRaise(exc, log0) ==
    /\ pc' = "done"
    /\ propagated' = ~run_catches(exc)
    /\ log' = IF run_catches(exc)
              THEN Append(log0, LogEntry("ERROR", "An unexpected error occurred", exc))
              ELSE log0

RunPage(table) == [title |-> [present |-> FALSE, text |-> <<>>], tables |-> table]

RunPages ==
    {RunPage(<<>>)}
    \cup {RunPage(<<t>>) : t \in SmallTables}
    \cup {RunPage(<<[headers |-> <<H_ErrorDec, H_Description>>,
                     trs |-> <<HeaderRow, <<Plain(c), Bold(<<"G">>)>>>>]>>) :
             c \in {<<"1", "-", "2">>, <<"1", "-", "2", "-", "3">>, <<"U+00B2">>}}
    \cup {RunPage(<<[headers |-> <<H_ErrorDec, H_Description>>,
                     trs |-> <<HeaderRow, <<Plain(<<"4">>), Plain(<<" ">>)>>>>]>>)}

HrefA == <<"a">>
HrefB == <<"b">>
EntrySections ==
    {<<>>,
     <<<<HrefA>>>>,
     <<<<HrefA, HrefB>>>>,
     <<<<HrefB, BASE_URL \o HrefA, HrefA>>>>,
     <<<<HrefA, HrefB>>, <<HrefA, HrefB>>>>,
     <<<<HrefA>>, <<HrefB>>>>}

LoadOutcomes == {"fetch_failed", "iframe_failed", "loaded", "loaded_iframe"}

\* the URLs fetch_html is called with when a page is loaded
fetches_of(url, outcome) ==
    IF outcome \in {"iframe_failed", "loaded_iframe"} THEN <<url, IFRAME_SRC>> ELSE <<url>>

\* the URL whose fetch failed
failed_url(url, outcome) == IF outcome = "iframe_failed" THEN IFRAME_SRC ELSE url

RunInit ==
    /\ FormatIdle
    /\ ResolveIdle
    /\ ExtractIdle
    /\ RunIdle

\* lines 572-587: the entry page is loaded and its links are taken
RunLoadMain ==
    /\ pc = "start"
    /\ \E outcome \in LoadOutcomes, sections \in EntrySections :
          /\ fetched' = fetched \o fetches_of(MAIN_URL, outcome)
          /\ IF outcome \in {"fetch_failed", "iframe_failed"}
             THEN /\ RunRaise("RequestException",
                              Append(log, LogEntry("ERROR", "Failed to fetch URL",
                                                   failed_url(MAIN_URL, outcome))))
                  /\ UNCHANGED <<main_soup, links>>
             ELSE /\ main_soup' = sections
                  /\ links' = IF get_page_links(sections) = <<>>
                              THEN <<MAIN_URL>>
                              ELSE unique_in_order(get_page_links(sections))
                  /\ pc' = "loop"
                  /\ UNCHANGED <<log, propagated>>
    /\ UNCHANGED <<link_idx, processed, invoked, files, contents, fmtVars, resVars, extVars>>

\* lines 592-619: one iteration of the loop over the links
RunProcessLink ==
    /\ pc = "loop"
    /\ link_idx < Len(links)
    /\ \E outcome \in LoadOutcomes, page \in RunPages :
          LET link == links[link_idx + 1]
              ex == extract_table_data(page)
              exc == IF outcome \in {"fetch_failed", "iframe_failed"}
                     THEN "RequestException"
                     ELSE IF ex.raised THEN "ValueError" ELSE "none"
              rows == IF exc = "none" THEN collect_rows(get_page_title(page), ex)
                      ELSE <<>>
              result == IF exc = "RequestException" THEN "load_failed"
                        ELSE IF exc = "ValueError" THEN "no_table"
                        ELSE IF rows = <<>> THEN "no_rows" ELSE "rows"
              log1 == IF exc = "RequestException"
                      THEN Append(log, LogEntry("ERROR", "Failed to fetch URL",
                                                failed_url(link, outcome)))
                      ELSE log
              log2 == CASE exc = "RequestException" ->
                             Append(log1, LogEntry("ERROR", "Error processing link", link))
                        [] exc = "ValueError" ->
                             Append(log1, LogEntry("WARNING", "Table extraction issue", link))
                        [] OTHER ->
                             IF rows = <<>>
                             THEN Append(log1, LogEntry("WARNING", "No rows found in table", link))
                             ELSE log1
          IN  /\ fetched' = fetched \o fetches_of(link, outcome)
              /\ processed' = Append(processed,
                     [link |-> link, result |-> result, rows |-> rows])
              /\ IF exc # "none" /\ ~link_error_caught(exc)
                 THEN /\ RunRaise(exc, log1)
                      /\ UNCHANGED <<link_idx, all_raw_rows>>
                 ELSE /\ all_raw_rows' = all_raw_rows \o rows
                      /\ link_idx' = link_idx + 1
                      /\ log' = log2
                      /\ UNCHANGED <<pc, propagated>>
    /\ UNCHANGED <<main_soup, links, invoked, files, contents, fmtVars, error_codes, rpc, extVars>>

\* line 622
RunResolve ==
    /\ pc = "loop"
    /\ link_idx = Len(links)
    /\ error_codes' = process_error_codes(all_raw_rows)
    /\ invoked' = Append(invoked, "process_error_codes")
    /\ pc' = "write_csv"
    /\ UNCHANGED <<main_soup, links, link_idx, fetched, processed, files, contents, log,
                   propagated,
                   all_raw_rows, rpc, fmtVars, extVars>>

\* line 625, write_to_csv: an IOError is logged and raised again
RunWriteCsv ==
    /\ pc = "write_csv"
    /\ invoked' = Append(invoked, "write_to_csv")
    /\ \E io_error \in BOOLEAN :
          IF io_error
          THEN /\ RunRaise("IOError",
                           Append(log, LogEntry("ERROR", "Failed to write to CSV file", "csv")))
               /\ UNCHANGED files
          ELSE /\ files' = [files EXCEPT !["csv"] = "written"]
               /\ pc' = "write_enum"
               /\ UNCHANGED <<log, propagated>>
    /\ UNCHANGED <<main_soup, links, link_idx, fetched, processed, contents, fmtVars,
                   resVars, extVars>>

\* write_enum_definition and write_description_function: the records are
\* sorted, the file is written with the given entries; an IOError is logged
\* and not raised again
WriteTemplated(here, method, artifact, entries, message, next) ==
    /\ pc = here
    /\ invoked' = Append(invoked, method)
    /\ IF sort_raises(error_codes)
       THEN /\ RunRaise("ValueError", log)
            /\ UNCHANGED <<files, contents>>
       ELSE \E io_error \in BOOLEAN :
               /\ pc' = next
               /\ propagated' = propagated
               /\ IF io_error
                  THEN /\ log' = Append(log, LogEntry("ERROR", message, artifact))
                       /\ UNCHANGED <<files, contents>>
                  ELSE /\ files' = [files EXCEPT ![artifact] = "written"]
                       /\ contents' = [contents EXCEPT ![artifact] = entries]
                       /\ UNCHANGED log
    /\ UNCHANGED <<main_soup, links, link_idx, fetched, processed, fmtVars, resVars,
                   extVars>>

\* line 626
RunWriteEnum ==
    WriteTemplated("write_enum", "write_enum_definition", "enum",
                   enum_entries(error_codes),
                   "Failed to write enum definition file", "write_description")

\* line 627
RunWriteDescription ==
    WriteTemplated("write_description", "write_description_function", "description",
                   description_cases(error_codes),
                   "Failed to write description function file", "write_converter")

\* line 628, write_converter_function: as the other two, and the unpacking of
\* a code range raises ValueError while the file is being written
RunWriteConverter ==
    /\ pc = "write_converter"
    /\ invoked' = Append(invoked, "write_converter_function")
    /\ IF sort_raises(error_codes)
       THEN /\ RunRaise("ValueError", log)
            /\ UNCHANGED files
       ELSE \E io_error \in BOOLEAN :
               IF io_error
               THEN /\ log' = Append(log, LogEntry("ERROR",
                               "Failed to write converter function file", "converter"))
                    /\ pc' = "finish"
                    /\ UNCHANGED <<files, propagated>>
               ELSE IF unpack_raises(error_codes)
               THEN /\ files' = [files EXCEPT !["converter"] = "partial"]
                    /\ RunRaise("ValueError", log)
               ELSE /\ files' = [files EXCEPT !["converter"] = "written"]
                    /\ pc' = "finish"
                    /\ UNCHANGED <<log, propagated>>
    /\ UNCHANGED <<main_soup, links, link_idx, fetched, processed, contents, fmtVars,
                   resVars, extVars>>

\* lines 630-634
RunFinish ==
    /\ pc = "finish"
    /\ pc' = "done"
    /\ UNCHANGED <<main_soup, links, link_idx, fetched, processed, invoked, files,
                   contents, log, propagated, fmtVars, resVars, extVars>>

RunNext ==
    \/ RunLoadMain
    \/ RunProcessLink
    \/ RunResolve
    \/ RunWriteCsv
    \/ RunWriteEnum
    \/ RunWriteDescription
    \/ RunWriteConverter
    \/ RunFinish

\* run() is a sequential program: it takes its next step
RunSpec == RunInit /\ [][RunNext]_vars /\ WF_vars(RunNext)

Invoked(method) == \E k \in 1..Len(invoked) : invoked[k] = method
Fetched(url) == \E k \in 1..Len(fetched) : fetched[k] = url
LoopLeft == pc \notin {"start", "loop"}

\* the number of rows the iterations before iteration j added
RECURSIVE RowsBefore(_)
RowsBefore(j) == IF j <= 1 THEN 0 ELSE RowsBefore(j - 1) + Len(processed[j - 1].rows)

\* every link after link i was fetched and extracted, and once the records are
\* resolved its rows are among them, in order
LaterPagesDone(i) ==
    \A j \in (i + 1)..Len(links) :
        /\ j <= Len(processed)
        /\ processed[j].link = links[j]
        /\ Fetched(links[j])
        /\ Invoked("process_error_codes") =>
               \A n \in 1..Len(processed[j].rows) :
                   /\ RowsBefore(j) + n <= Len(error_codes)
                   /\ error_codes[RowsBefore(j) + n].code = processed[j].rows[n].row[2]
                   /\ error_codes[RowsBefore(j) + n].description
                          = processed[j].rows[n].row[4]

\* C3: a page with zero tables adds no rows and is skipped; every later page
\* of the link list is still fetched and extracted and its rows are in the
\* records; the run goes on to resolution and emission.
C3_ZeroTablePageSkipped ==
    \A i \in 1..Len(processed) :
        processed[i].result = "no_table" =>
            /\ processed[i].rows = <<>>
            /\ pc # "done" \/ Invoked("write_to_csv")
            /\ LoopLeft => LaterPagesDone(i)

\* the first page had no table, the second page gave two rows, and all four
\* files were written
C3_Witness ==
    /\ pc = "done"
    /\ Len(processed) = 2
    /\ processed[1].result = "no_table"
    /\ processed[2].result = "rows"
    /\ Len(error_codes) = 2
    /\ \A a \in Artifacts : files[a] = "written"

TransportErrorLogged == \E k \in 1..Len(log) : log[k].msg = "Failed to fetch URL"

\* C4 as stated: after a transport error while loading any page, the entry
\* page included, run() still goes on to identifier resolution and to the
\* emitters.
C4_AnyTransportErrorRecoverable ==
    (pc = "done" /\ TransportErrorLogged) =>
        Invoked("process_error_codes") /\ Invoked("write_to_csv")

\* C4 as amended: a transport error while loading a page of the loop (its
\* iframe target included) skips only that page, and run() goes on to the
\* later pages, to identifier resolution and to emission; a transport error
\* in the first load of the entry page ends run() before any of that.
C4_LoopTransportErrorRecoverable ==
    /\ \A i \in 1..Len(processed) :
           processed[i].result = "load_failed" =>
               /\ processed[i].rows = <<>>
               /\ pc # "done" \/ (Invoked("process_error_codes") /\ Invoked("write_to_csv"))
               /\ LoopLeft => LaterPagesDone(i)
    /\ (pc = "done" /\ processed = <<>>) =>
           /\ TransportErrorLogged
           /\ invoked = <<>>
           /\ \A a \in Artifacts : files[a] = "absent"

\* the iframe target of the first page could not be fetched, the second page
\* gave a row, and the run went through all four emitters
C4_Witness ==
    /\ pc = "done"
    /\ Len(processed) = 2
    /\ processed[1].result = "load_failed"
    /\ \E k \in 1..Len(log) :
           log[k].msg = "Failed to fetch URL" /\ log[k].arg = IFRAME_SRC
    /\ processed[2].result = "rows"
    /\ Len(invoked) = 5

\* C5: a write failure in one emitter does not keep the other three from
\* being invoked: each of the four is attempted in every run that reaches
\* emission.
C5_AllEmittersAttempted ==
    (pc = "done" /\ Invoked("write_to_csv")) =>
        /\ Invoked("write_enum_definition")
        /\ Invoked("write_description_function")
        /\ Invoked("write_converter_function")

\* C6: run() always terminates and no exception leaves it, whichever steps
\* fail.
C6_RunTerminatesQuietly == <>(pc = "done") /\ [](~propagated)

\* a code with two "-" made write_converter_function raise ValueError in the
\* middle of its file, and run() ended without an exception
C6_Witness ==
    /\ pc = "done"
    /\ files["converter"] = "partial"
    /\ log[Len(log)] = LogEntry("ERROR", "An unexpected error occurred", "ValueError")
    /\ ~propagated

\* the link targets get_page_links returned for the entry page
Discovered == get_page_links(main_soup)
LinksDiscovered == pc # "start" /\ Discovered # <<>>

\* the place of the first occurrence of url among the discovered targets
FirstSeen(url) ==
    CHOOSE n \in 1..Len(Discovered) :
        /\ Discovered[n] = url
        /\ \A m \in 1..(n - 1) : Discovered[m] # url

\* the fetches of the discovered pages, in the order they were made
LinkFetches == SelectSeq(fetched, LAMBDA u : \E k \in 1..Len(links) : links[k] = u)

\* C12: the URLs of the loop are the discovered targets without a URL twice,
\* in the order of their first occurrence on the entry page, and run() fetches
\* each of them at most once, in that order.
C12_LinksUniqueInOrder ==
    LinksDiscovered =>
        /\ \A i, j \in 1..Len(links) : i # j => links[i] # links[j]
        /\ {links[k] : k \in 1..Len(links)} = {Discovered[n] : n \in 1..Len(Discovered)}
        /\ \A i, j \in 1..Len(links) : i < j => FirstSeen(links[i]) < FirstSeen(links[j])
        /\ Len(processed) <= Len(links)
        /\ LinkFetches = SubSeq(links, 1, Len(processed))

\* the entry page listed b, a and a again (once absolute, once relative); the
\* loop fetched b and then a, each once
C12_Witness ==
    /\ pc = "done"
    /\ main_soup = <<<<HrefB, BASE_URL \o HrefA, HrefA>>>>
    /\ links = <<BASE_URL \o HrefB, BASE_URL \o HrefA>>
    /\ LinkFetches = links

\* C13: get_page_links takes link targets only from the list that follows the
\* first element whose text contains "Further Information"; later matching
\* elements add no further links.
C13_FirstMatchOnly ==
    LinksDiscovered =>
        \A k \in 1..Len(links) :
            \E h \in 1..Len(main_soup[1]) : links[k] = absolute_url(main_soup[1][h])

\* C16: the description function is exhaustive over the enumeration: every
\* identifier write_enum_definition wrote as an entry has a case in the file
\* write_description_function wrote.
C16_DescriptionExhaustive ==
    (files["enum"] = "written" /\ files["description"] = "written") =>
        \A i \in 1..Len(contents["enum"]) :
            \E j \in 1..Len(contents["description"]) :
                contents["description"][j].identifier = contents["enum"][i].identifier

====
